---- MODULE Spec2Model ----
(***************************************************************************)
(* MorphoDepot: the repository / branch / pull-request reconciliation      *)
(* logic of MorphoDepotLogic (src/MorphoDepot/MorphoDepot.py).             *)
(*                                                                         *)
(* The issue tracker (repositories, their branches, pull requests) and the *)
(* local working copies of every session are the state.  One action per    *)
(* MorphoDepotLogic operation; the outcome of every external command       *)
(* (git, gh, file save, download) is an input of the action.               *)
(*                                                                         *)
(* Names are token sequences: a branch name is the list of its             *)
(* "-"-separated parts (issue-7 is <<"issue","7">>), a URL is the list of  *)
(* its parts with the separators "@", ":", "/" and "." as tokens of their  *)
(* own.  A commit is the set of changes it contains.                       *)
(***************************************************************************)
EXTENDS Integers, Sequences, FiniteSets, TLC

VARIABLES
    active,     \* the sessions that take part in this run
    faults,     \* number of external-command failures injected so far
    repos,      \* tracker: existing repositories, their parent and branches
    prs,        \* tracker: the pull requests, in order of creation
    wc,         \* per session (machine): the local directories and their git state
    sess,       \* per session: the fields of the MorphoDepotLogic object
    assignee,   \* tracker: the user each issue of the upstream repository is assigned to
    env,        \* the process: its locale and the configured gh executable
    last        \* what the most recent operation did (observation only)

vars == <<active, faults, repos, prs, wc, sess, assignee, env, last>>

(***************************************************************************)
(* Bounds                                                                  *)
(***************************************************************************)
MaxChanges == 2
MaxFaults == 1

(***************************************************************************)
(* The world                                                               *)
(***************************************************************************)
Sessions == {"a1", "a2", "c1"}
Me == [a1 |-> "ann", a2 |-> "ann", c1 |-> "cre"]
GitProtocol == [a1 |-> "ssh", a2 |-> "https", c1 |-> "https"]
\* The runs: annotator and reviewer; the annotator on two machines; the
\* owner working on an issue of the owner's own repository; the annotator alone, owning an
\* unrelated repository of the same name; the annotator alone, whose fork
\* was made before an earlier contribution was merged upstream.
Scenarios == {{"a1", "c1"}, {"a1", "a2"}, {"c1"}, {"a1"}, {"a2"}}

Issues == {1, 2}
NumStr == <<"1", "2", "3", "4">>

Upstream == "cre/r"
RepoIds == {"cre/r", "ann/r"}
OwnerOf == [r \in RepoIds |-> IF r = "cre/r" THEN "cre" ELSE "ann"]
RepoName == "r"
RepoOfOwner(u) == CHOOSE r \in RepoIds : OwnerOf[r] = u

Messages == {"", "needs more detail"}

None == "none"
Main == <<"main">>
Detached == <<"HEAD">>
RootCommit == {<<"root">>}
OtherRootCommit == {<<"other">>}
PriorChange == <<"prior">>

(***************************************************************************)
(* Token-sequence helpers (str.split / str.join / str.find)                *)
(***************************************************************************)
\* (each argument is bound to its value before it is taken apart)
RECURSIVE Split(_, _)
Split(str, sep) ==
    CHOOSE parts \in
        {IF \A k \in 1 .. Len(s) : s[k] # sep THEN <<s>>
         ELSE LET k == CHOOSE j \in 1 .. Len(s) :
                           s[j] = sep /\ \A h \in 1 .. j - 1 : s[h] # sep
              IN <<SubSeq(s, 1, k - 1)>> \o Split(SubSeq(s, k + 1, Len(s)), sep)
         : s \in {str}} : TRUE

RECURSIVE Join(_, _)
Join(list, sep) ==
    CHOOSE str \in
        {IF Len(parts) = 0 THEN <<>>
         ELSE IF Len(parts) = 1 THEN parts[1]
         ELSE parts[1] \o <<sep>> \o Join(Tail(parts), sep)
         : parts \in {list}} : TRUE

LastTwo(parts) ==
    IF Len(parts) <= 2 THEN parts ELSE SubSeq(parts, Len(parts) - 1, Len(parts))

Contains(s, tok) == \E k \in 1 .. Len(s) : s[k] = tok

(***************************************************************************)
(* Naming                                                                  *)
(***************************************************************************)
BranchName(n) == <<"issue", NumStr[n]>>
LocalDirectory(repositoryName, branchName) == <<repositoryName>> \o branchName

URLOf(p, r) ==
    IF p = "ssh"
    THEN <<"git", "@", "github", ".", "com", ":", OwnerOf[r], "/", RepoName, ".", "git">>
    ELSE <<"https", ":", "/", "/", "github", ".", "com", "/", OwnerOf[r], "/", RepoName, ".", "git">>

NWO(r) == <<OwnerOf[r], "/", RepoName>>

ParseURL(repoURL) ==
    CHOOSE name \in
        {Split(tail, ".")[1] :
            tail \in {Join(LastTwo(Split(slashed, "/")), "/") :
                slashed \in {IF Contains(repoURL, "@")
                             THEN Join(Split(repoURL, ":"), "/")
                             ELSE repoURL}}} : TRUE

RepoByNWO(t) ==
    IF \E r \in RepoIds : NWO(r) = t
    THEN CHOOSE r \in RepoIds : NWO(r) = t
    ELSE None

(***************************************************************************)
(* Session (MorphoDepotLogic object) and working-copy values               *)
(***************************************************************************)
NoDir == <<>>
NoNode == [dir |-> <<>>, name |-> <<>>]
NoPath == [dir |-> <<>>, file |-> <<>>]
NoIssue == 0

\* the MorphoDepotLogic fields and the enabled flags of the widget's panels
NewLogic ==
    [segmentationNode |-> NoNode,
     segmentationPath |-> NoPath,
     localRepo |-> NoDir,
     currentIssue |-> NoIssue,
     forkManagement |-> FALSE,
     reviewButton |-> FALSE,
     prPanel |-> FALSE,
     makeReleaseButton |-> FALSE,
     \* where a commitAndPush in progress stands, and what its issuePR returned
     pc |-> "idle",
     found |-> 0]

NoLast ==
    [op |-> "init", s |-> "a1", result |-> "ok", cmds |-> <<>>,
     issue |-> 0, msg |-> "", pr |-> 0, was |-> "none", commit |-> "none", push |-> "none", how |-> "none",
     arg |-> <<>>, ret |-> <<>>]

\* the process after checkGitDependencies succeeded: host locale, gh path set
ConfiguredEnv == [locale |-> "C", ghExecutablePath |-> "/usr/bin/gh"]

(***************************************************************************)
(* git, as the working copy sees it                                        *)
(***************************************************************************)
\* gh repo clone: origin is the cloned repository; for a fork gh also adds
\* its parent as remote "upstream".  The default branch is checked out.
CloneOf(rs, r) ==
    [origin |-> r,
     upstream |-> rs[r].parent,
     heads |-> (Main :> rs[r].branches[Main]),
     refs |-> rs[r].branches,
     head |-> Main,
     tracking |-> (Main :> Main)]

EnsureUpstreamExists(w) ==
    IF w.upstream = None THEN [w EXCEPT !.upstream = w.origin] ELSE w

\* git pull --rebase <remote> <branch> of the checked-out commit `mine` onto
\* `theirs`; a rebase of diverged histories may stop on a conflict.
PullRebase(mine, theirs, conflict) ==
    IF theirs \subseteq mine THEN [ok |-> TRUE, commit |-> mine]
    ELSE IF mine \subseteq theirs THEN [ok |-> TRUE, commit |-> theirs]
    ELSE IF conflict THEN [ok |-> FALSE, commit |-> mine]
    ELSE [ok |-> TRUE, commit |-> mine \cup theirs]

\* every change committed so far, and the change a new commit of session s
\* on branch b introduces
LocalCommits(s) ==
    UNION {{wc[s][d].heads[b] : b \in DOMAIN wc[s][d].heads} : d \in DOMAIN wc[s]}

AllChanges ==
    UNION (UNION {LocalCommits(s) : s \in Sessions})
        \ (RootCommit \cup OtherRootCommit \cup {PriorChange})

NewChange(s, b) ==
    <<s>> \o b \o
    <<NumStr[1 + Cardinality({c \in AllChanges : SubSeq(c, 1, Len(c) - 1) = <<s>> \o b})]>>

(***************************************************************************)
(* nameWithOwner(remote) of a working copy                                 *)
(***************************************************************************)
HasRemote(w, remote) == remote = "origin" \/ w.upstream # None
RemoteRepo(w, remote) == IF remote = "origin" THEN w.origin ELSE w.upstream
\* the owner/name parsed from the URL of each repository, per protocol
ParsedRemote == [p \in {"ssh", "https"}, r \in RepoIds |-> ParseURL(URLOf(p, r))]
nameWithOwner(s, w, remote) == ParsedRemote[GitProtocol[s], RemoteRepo(w, remote)]

(***************************************************************************)
(* Tracker queries                                                         *)
(***************************************************************************)
\* gh repo list --json name : the names of the repositories the user owns
repositoryList(u) ==
    IF RepoOfOwner(u) \in DOMAIN repos THEN {RepoName} ELSE {}

\* the repositories carrying the workflow topic
morphoRepos == {NWO(r) : r \in {x \in DOMAIN repos : repos[x].topic}}

(***************************************************************************)
(* Init                                                                    *)
(***************************************************************************)
\* createAccessionRepo publishes release v1 with the source volume
FirstRelease == <<"v", "1">>
UpstreamRepo == [parent |-> None, branches |-> (Main :> RootCommit), releases |-> {FirstRelease},
                 topic |-> TRUE]
UnrelatedRepo == [parent |-> None, branches |-> (Main :> OtherRootCommit), releases |-> {},
                  topic |-> TRUE]
AdvancedUpstreamRepo ==
    [parent |-> None, branches |-> (Main :> (RootCommit \cup {PriorChange})),
     releases |-> {FirstRelease}, topic |-> TRUE]
StaleForkRepo == [parent |-> Upstream, branches |-> (Main :> RootCommit), releases |-> {},
                  topic |-> FALSE]

InitialRepos(scenario) ==
    IF scenario = {"a1"}
    THEN (Upstream :> UpstreamRepo) @@ ("ann/r" :> UnrelatedRepo)
    ELSE IF scenario = {"a2"}
    THEN (Upstream :> AdvancedUpstreamRepo) @@ ("ann/r" :> StaleForkRepo)
    ELSE (Upstream :> UpstreamRepo)

\* the owner works on both issues of the repository; elsewhere issue 1 is
\* the annotator's
InitialAssignee(scenario) ==
    IF scenario = {"c1"} THEN [i \in Issues |-> "cre"]
    ELSE IF scenario = {"a1", "a2"} THEN [i \in Issues |-> IF i = 1 THEN "ann" ELSE "cre"]
    ELSE [i \in Issues |-> IF i = 1 THEN "ann" ELSE None]

Init ==
    /\ active \in Scenarios
    /\ faults = 0
    /\ repos = InitialRepos(active)
    /\ prs = <<>>
    /\ wc = [s \in Sessions |-> <<>>]
    /\ sess = [s \in Sessions |-> NewLogic]
    /\ assignee = InitialAssignee(active)
    /\ env = ConfiguredEnv
    /\ last = NoLast

(***************************************************************************)
(* prList(role) and issuePR(role)                                          *)
(***************************************************************************)
\* gh search prs --state open [--author=@me | --owner=@me], filtered by the
\* topic repositories: the numbers of the pull requests, in search order
\* the search of prList with the reviewer's filter for either role
InPRList_ownerFilter(q, k, me, role) ==
    /\ q[k].state = "open"
    /\ NWO(q[k].repo) \in morphoRepos
    /\ OwnerOf[q[k].repo] = me

\* the search of prList without the filter by the topic repositories
InPRList_noTopicFilter(q, k, me, role) ==
    /\ q[k].state = "open"
    /\ IF role = "segmenter" THEN q[k].author = me
       ELSE OwnerOf[q[k].repo] = me

InPRList(q, k, me, role) ==
    /\ q[k].state = "open"
    /\ NWO(q[k].repo) \in morphoRepos
    /\ IF role = "segmenter" THEN q[k].author = me
       ELSE OwnerOf[q[k].repo] = me

prList(q, me, role) == {k \in 1 .. Len(q) : InPRList(q, k, me, role)}

MaxOf(S) == IF S = {} THEN 0 ELSE CHOOSE k \in S : \A j \in S : j <= k

\* active_branch raises when HEAD is detached (a rebase stopped on a conflict)
NoActiveBranch(s) ==
    sess[s].localRepo # NoDir /\ wc[s][sess[s].localRepo].head = Detached

\* issuePR that compares the pull request's repository with the wrong remote
PRFor_originRemote(q, s, w, role) ==
    LET branchName == w.head
    IN MaxOf({k \in prList(q, Me[s], role) :
                 /\ NWO(q[k].repo) = nameWithOwner(s, w, "origin")
                 /\ q[k].title = branchName})

\* issuePR that looks through every pull request, not the role's open ones
PRFor_closedToo(q, s, w, role) ==
    LET branchName == w.head
    IN IF ~HasRemote(w, "upstream") THEN 0
       ELSE MaxOf({k \in 1 .. Len(q) :
                     /\ NWO(q[k].repo) = nameWithOwner(s, w, "upstream")
                     /\ q[k].title = branchName})

\* issuePR on the working copy w with the pull requests q: the number of the
\* pull request of the active branch, 0 for None (the last match of the
\* loop wins)
PRFor(q, s, w, role) ==
    LET branchName == w.head
    IN IF ~HasRemote(w, "upstream") THEN 0
       ELSE MaxOf({k \in prList(q, Me[s], role) :
                     /\ NWO(q[k].repo) = nameWithOwner(s, w, "upstream")
                     /\ q[k].title = branchName})

issuePR(s, role) ==
    IF sess[s].localRepo = NoDir THEN 0
    ELSE PRFor(prs, s, wc[s][sess[s].localRepo], role)

(***************************************************************************)
(* loadIssue(issue, repoDirectory)                                         *)
(***************************************************************************)
\* gh repo fork <source> --remote=true --clone=false, run by user u
ForkRepo(rs, source, u) ==
    rs @@ (RepoOfOwner(u) :> [parent |-> source, branches |-> rs[source].branches,
                            releases |-> {}, topic |-> FALSE])

\* The branch resolution of loadIssue on the fetched working copy w:
\* local branch, else origin's branch (tracking), else a new branch.
\* a checkout of the local branch that also takes origin's commits of it
CheckoutExistingLocal_pullOrigin(w, branchName) ==
    [w EXCEPT !.head = branchName,
              !.heads[branchName] =
                  IF branchName \in DOMAIN w.refs THEN @ \cup w.refs[branchName] ELSE @]

CheckoutExistingLocal(w, branchName) == [w EXCEPT !.head = branchName]

CheckoutTrackingOrigin(w, branchName) ==
    [w EXCEPT !.heads = (branchName :> w.refs[branchName]) @@ @,
              !.tracking = (branchName :> branchName) @@ @,
              !.head = branchName]

CreateBranchFromOriginMain(w, branchName) ==
    [w EXCEPT !.heads = (branchName :> w.refs[Main]) @@ @,
              !.tracking = (branchName :> <<>>) @@ @,
              !.head = branchName]

\* the resolution of loadIssue without the look at origin's branches
Resolution_localOrNew(w, branchName) ==
    IF branchName \in DOMAIN w.heads THEN "local" ELSE "new"

Resolution(w, branchName) ==
    IF branchName \in DOMAIN w.heads THEN "local"
    ELSE IF branchName \in DOMAIN w.refs THEN "origin"
    ELSE "new"

\* loadFromLocalRepository for the "segment" configuration: the fields it sets
LoadedNode(dir, w) == [dir |-> dir, name |-> w.head]
LoadedPath(dir, w) == [dir |-> dir, file |-> w.head]

CountFault(fault) == faults' = IF fault = "none" THEN faults ELSE faults + 1
FaultAllowed(fault) == fault # "none" => faults < MaxFaults

LoadIssue(s, issue) ==
    \E fault \in {"none", "fork", "clone", "conflict", "load"} :
    LET me == Me[s]
        branchName == BranchName(issue)
        sourceRepository == Upstream
        localDirectory == LocalDirectory(RepoName, branchName)
        exists == localDirectory \in DOMAIN wc[s]
        needFork == ~exists /\ RepoName \notin repositoryList(me)
        forked == needFork /\ fault # "fork"
        cloneTried == ~exists /\ (needFork => forked)
        cloned == cloneTried /\ fault # "clone"
        cmds == (IF needFork THEN <<"repo fork">> ELSE <<>>)
                \o (IF cloneTried THEN <<"repo clone">> ELSE <<>>)
        bootFailed == ~exists /\ ~cloned
        obs == [NoLast EXCEPT !.op = "loadIssue", !.s = s, !.issue = issue, !.cmds = cmds]
    IN
    /\ s \in active
    /\ assignee[issue] = me
    /\ FaultAllowed(fault)
    /\ CountFault(fault)
    /\ \E repos1 \in {IF forked THEN ForkRepo(repos, sourceRepository, me) ELSE repos} :
       /\ repos' = repos1
       /\ IF bootFailed
          THEN /\ fault \in {"fork", "clone"}
               /\ wc' = wc
               /\ sess' = [sess EXCEPT ![s].currentIssue = issue]
               /\ last' = [obs EXCEPT !.result = "raised"]
          ELSE
          \* git.Repo(localDirectory); ensureUpstreamExists(); origin.fetch()
          \E w2 \in {LET w0 == IF exists THEN wc[s][localDirectory]
                               ELSE CloneOf(repos1, RepoOfOwner(me))
                         w1 == EnsureUpstreamExists(w0)
                     IN [w1 EXCEPT !.refs = repos1[w1.origin].branches]} :
          \E how \in {Resolution(w2, branchName)} :
          LET stuck == how = "local" /\ w2.head = Detached
          IN
          \E w3 \in {IF how = "local" THEN CheckoutExistingLocal(w2, branchName)
                     ELSE IF how = "origin" THEN CheckoutTrackingOrigin(w2, branchName)
                     ELSE CreateBranchFromOriginMain(w2, branchName)} :
          \E pull \in {PullRebase(w3.heads[branchName],
                                  repos1[w3.upstream].branches[Main], fault = "conflict")} :
          LET gitFailed == stuck \/ (how = "local" /\ ~pull.ok)
              wEnd == IF stuck THEN w2
                      ELSE IF how # "local" THEN w3
                      ELSE IF pull.ok THEN [w3 EXCEPT !.heads[branchName] = pull.commit]
                      ELSE [w3 EXCEPT !.head = Detached]
              loaded == ~gitFailed /\ fault # "load"
          IN
          \* the fault chosen must be one this run can meet
          /\ CASE fault = "none" -> TRUE
               [] fault = "fork" -> needFork
               [] fault = "clone" -> cloneTried
               [] fault = "conflict" -> ~stuck /\ how = "local" /\ ~pull.ok
               [] fault = "load" -> ~gitFailed
          /\ wc' = [wc EXCEPT ![s] = (localDirectory :> wEnd) @@ @]
          /\ sess' = [sess EXCEPT
                ![s].currentIssue = issue,
                ![s].localRepo = localDirectory,
                ![s].segmentationPath =
                    IF loaded THEN LoadedPath(localDirectory, wEnd) ELSE @,
                ![s].segmentationNode =
                    IF loaded THEN LoadedNode(localDirectory, wEnd) ELSE @,
                ![s].forkManagement = @ \/ loaded,
                ![s].reviewButton = @ \/ (loaded /\ PRFor(prs, s, wEnd, "segmenter") # 0)]
          /\ last' = [obs EXCEPT !.result = IF loaded THEN "ok" ELSE "raised",
                                 !.how = IF stuck THEN "none" ELSE how]
    /\ UNCHANGED <<env, active, prs, assignee>>

(***************************************************************************)
(* The tracker's answer to gh pr create                                    *)
(***************************************************************************)
HeadRepo(headOwner) ==
    IF \E r \in DOMAIN repos : <<OwnerOf[r]>> = headOwner
    THEN CHOOSE r \in DOMAIN repos : <<OwnerOf[r]>> = headOwner
    ELSE None

\* a tracker that accepts a second open pull request of the same head
PRCreateAccepted_secondOpen(rs, base, headOwner, branchName) ==
    /\ base \in DOMAIN rs
    /\ HeadRepo(headOwner) # None
    /\ branchName \in DOMAIN rs[HeadRepo(headOwner)].branches
    /\ ~(rs[HeadRepo(headOwner)].branches[branchName] \subseteq rs[base].branches[Main])

\* rs: the repositories at the time of the command.  The tracker refuses a
\* pull request without commits and a second open one for the same head.
PRCreateAccepted(rs, base, headOwner, branchName) ==
    /\ base \in DOMAIN rs
    /\ HeadRepo(headOwner) # None
    /\ branchName \in DOMAIN rs[HeadRepo(headOwner)].branches
    /\ ~(rs[HeadRepo(headOwner)].branches[branchName] \subseteq rs[base].branches[Main])
    /\ ~\E k \in 1 .. Len(prs) :
           /\ prs[k].state = "open"
           /\ prs[k].repo = base
           /\ prs[k].head = [owner |-> headOwner, branch |-> branchName]

NoReview == [kind |-> "none", body |-> ""]

\* gh pr create without --draft
NewDraftPR_withoutDraft(base, title, headOwner, branchName, body, author) ==
    [repo |-> base, title |-> title,
     head |-> [owner |-> headOwner, branch |-> branchName],
     body |-> body, author |-> author,
     isDraft |-> FALSE, state |-> "open", review |-> NoReview]

\* gh pr create --head <branch> with the owner of origin left out
NewDraftPR_headWithoutOwner(base, title, headOwner, branchName, body, author) ==
    [repo |-> base, title |-> title,
     head |-> [owner |-> <<OwnerOf[base]>>, branch |-> branchName],
     body |-> body, author |-> author,
     isDraft |-> TRUE, state |-> "open", review |-> NoReview]

NewDraftPR(base, title, headOwner, branchName, body, author) ==
    [repo |-> base, title |-> title,
     head |-> [owner |-> headOwner, branch |-> branchName],
     body |-> body, author |-> author,
     isDraft |-> TRUE, state |-> "open", review |-> NoReview]

(***************************************************************************)
(* commitAndPush(message)                                                  *)
(***************************************************************************)
\* the flag test of commitAndPush with REMOTE_FAILURE and ERROR left out
PushFailureFlags_rejectedOnly == {"rejected", "remote-rejected"}

\* the PushInfo flags after which commitAndPush returns False
PushFailureFlags == {"rejected", "remote-rejected", "remote-failure", "error"}

\* The flag of the PushInfo for the branch: a push that is not a fast-forward
\* of the remote branch is rejected; otherwise the remote may still fail.
PushResult(remoteBranches, branchName, mine, fault) ==
    IF branchName \in DOMAIN remoteBranches /\ ~(remoteBranches[branchName] \subseteq mine)
    THEN "rejected"
    ELSE IF fault \in {"remote-rejected", "remote-failure", "error"} THEN fault
    ELSE "clean"

\* commitAndPush(message) of the session s, the external commands meeting
\* `fault`: what it returns (result), the flag of its push, the gh commands it
\* issued, the pull request it found, and the repositories, pull requests and
\* working copies it leaves.  met: the fault is one this run can meet.
commitAndPush(s, fault) ==
    LET me == Me[s]
        logic == sess[s]
        dir == logic.localRepo
        noNode == logic.segmentationNode = NoNode
        nothing == [met |-> TRUE, result |-> "false", push |-> "none", cmds |-> <<>>,
                    pr |-> 0, repos |-> repos, prs |-> prs, wc |-> wc]
    IN
    IF noNode \/ fault = "save"
    THEN \* no segmentation node, or slicer.util.saveNode failed
         [nothing EXCEPT !.met = (noNode => fault = "none")]
    ELSE
    LET w0 == wc[s][dir] IN
    IF logic.segmentationPath.dir # dir \/ w0.head = Detached
    THEN \* index.add of a path outside the repository, or no active branch
         [nothing EXCEPT !.met = (fault = "none"), !.result = "raised"]
    ELSE
    LET branchName == w0.head
        onOrigin == branchName \in DOMAIN w0.refs
        committed == w0.heads[branchName] \cup {NewChange(s, branchName)}
        \* index.commit, then pull --rebase origin <branch> when origin/<branch> is known
        pull == IF onOrigin
                THEN PullRebase(committed, repos[w0.origin].branches[branchName],
                                fault = "conflict")
                ELSE [ok |-> TRUE, commit |-> committed]
        w1 == [w0 EXCEPT !.heads[branchName] = pull.commit]
        w2 == IF ~onOrigin THEN w1
              ELSE IF pull.ok
              THEN [w1 EXCEPT !.refs[branchName] = repos[w0.origin].branches[branchName]]
              ELSE [w1 EXCEPT !.head = Detached,
                              !.refs[branchName] = repos[w0.origin].branches[branchName]]
        room == Cardinality(AllChanges) < MaxChanges
    IN
    IF ~pull.ok
    THEN [nothing EXCEPT !.met = (room /\ fault = "conflict"), !.result = "raised",
                         !.wc = [wc EXCEPT ![s][dir] = w2]]
    ELSE
    \* remote.push(branchName) and the inspection of its flags
    LET flag == PushResult(repos[w2.origin].branches, branchName, pull.commit, fault) IN
    IF flag \in PushFailureFlags
    THEN [nothing EXCEPT !.met = (room /\ fault \in {"none", flag}), !.push = flag,
                         !.wc = [wc EXCEPT ![s][dir] = w2]]
    ELSE
    LET repos1 == [repos EXCEPT ![w2.origin].branches = (branchName :> pull.commit) @@ @]
        found == issuePR(s, "segmenter")
        pushed == [nothing EXCEPT
                     !.met = (room /\ fault \in {"none", flag}), !.push = flag,
                     !.repos = repos1,
                     !.wc = [wc EXCEPT ![s][dir] =
                                [w2 EXCEPT !.refs = (branchName :> pull.commit) @@ @]]]
    IN
    IF found # 0
    THEN [pushed EXCEPT !.result = "true", !.pr = found]
    ELSE IF Len(branchName) < 2
    THEN \* branchName.split("-")[1] of a name without a dash
         [pushed EXCEPT !.result = "raised"]
    ELSE
    LET issueNumber == branchName[2]
        upstreamNameWithOwner == nameWithOwner(s, w2, "upstream")
        originNameWithOwner == nameWithOwner(s, w2, "origin")
        originOwner == Split(originNameWithOwner, "/")[1]
        prBody == <<"Fixes", issueNumber>>
        base == RepoByNWO(upstreamNameWithOwner)
    IN IF /\ fault # "create"
          /\ base # None
          /\ PRCreateAccepted(repos1, base, originOwner, branchName)
       THEN [pushed EXCEPT
               !.result = "true", !.cmds = <<"pr create">>,
               !.prs = Append(prs, NewDraftPR(base, branchName, originOwner,
                                              branchName, prBody, me))]
       ELSE [pushed EXCEPT !.met = (room /\ fault \in {"none", "create", flag}),
                           !.result = "raised", !.cmds = <<"pr create">>]

CommitFaults ==
    {"none", "save", "conflict", "remote-rejected", "remote-failure", "error", "create"}

\* onCommit with a commit message: commitAndPush, and the review button is
\* enabled when it returns True
CommitAndPush(s) ==
    \E fault \in CommitFaults :
    \E r \in {commitAndPush(s, fault)} :
    /\ s \in active
    /\ sess[s].forkManagement
    /\ r.met
    /\ FaultAllowed(fault)
    /\ CountFault(fault)
    /\ repos' = r.repos
    /\ prs' = r.prs
    /\ wc' = r.wc
    /\ sess' = [sess EXCEPT ![s].reviewButton = @ \/ r.result = "true"]
    /\ last' = [NoLast EXCEPT !.op = "commitAndPush", !.s = s, !.commit = r.result,
                              !.result = r.result, !.push = r.push,
                              !.cmds = r.cmds, !.pr = r.pr]
    /\ UNCHANGED <<env, active, assignee>>

(***************************************************************************)
(* loadPR(pr, repoDirectory)                                               *)
(***************************************************************************)
\* git checkout <branch>: the local branch, else a new branch tracking the
\* branch of that name on origin
CheckoutByName(w, branchName) ==
    IF branchName \in DOMAIN w.heads THEN CheckoutExistingLocal(w, branchName)
    ELSE CheckoutTrackingOrigin(w, branchName)

SetTrackingIfNone(w) ==
    IF w.tracking[w.head] = <<>> THEN [w EXCEPT !.tracking[w.head] = Main] ELSE w

LoadPRFrom(s, k, widget) ==
    \E fault \in {"none", "clone", "conflict", "pull", "load"} :
    LET me == Me[s]
        pr == prs[k]
        branchName == pr.title
        repositoryName == RepoOfOwner(pr.author)
        localDirectory == LocalDirectory(RepoName, branchName)
        exists == localDirectory \in DOMAIN wc[s]
        obs == [NoLast EXCEPT !.op = "loadPR", !.s = s, !.pr = k,
                              !.cmds = IF exists THEN <<>> ELSE <<"repo clone">>]
    IN
    /\ s \in active
    /\ OwnerOf[pr.repo] = me
    /\ FaultAllowed(fault)
    /\ CountFault(fault)
    /\ UNCHANGED <<env, active, repos, prs, assignee>>
    /\ IF ~exists /\ (fault = "clone" \/ repositoryName \notin DOMAIN repos)
       THEN /\ fault \in {"none", "clone"}
            /\ wc' = wc
            /\ sess' = sess
            /\ last' = [obs EXCEPT !.result = "raised"]
       ELSE
       \* git.Repo(localDirectory); ensureUpstreamExists(); origin.fetch()
       \E w2 \in {LET w0 == IF exists THEN wc[s][localDirectory]
                            ELSE CloneOf(repos, repositoryName)
                      w1 == EnsureUpstreamExists(w0)
                  IN [w1 EXCEPT !.refs = repos[w1.origin].branches]} :
       IF \/ w2.head = Detached
          \/ (branchName \notin DOMAIN w2.heads /\ branchName \notin DOMAIN w2.refs)
       THEN \* git checkout fails
            /\ fault = "none"
            /\ wc' = [wc EXCEPT ![s] = (localDirectory :> w2) @@ @]
            /\ sess' = [sess EXCEPT ![s].localRepo = localDirectory]
            /\ last' = [obs EXCEPT !.result = "raised"]
       ELSE
       \E w3 \in {SetTrackingIfNone(CheckoutByName(w2, branchName))} :
       \E pull \in {PullRebase(w3.heads[branchName],
                               repos[w3.origin].branches[w3.tracking[branchName]],
                               fault = "conflict")} :
       LET pulled == pull.ok /\ fault # "pull"
           wEnd == IF fault = "pull" THEN w3
                   ELSE IF pull.ok THEN [w3 EXCEPT !.heads[branchName] = pull.commit]
                   ELSE [w3 EXCEPT !.head = Detached]
           loaded == pulled /\ fault # "load"
           returned == pulled => loaded
       IN
       /\ CASE fault = "conflict" -> ~pull.ok
            [] fault = "pull" -> pull.ok
            [] fault = "load" -> pull.ok
            [] fault = "clone" -> FALSE
            [] OTHER -> TRUE
       /\ wc' = [wc EXCEPT ![s] = (localDirectory :> wEnd) @@ @]
       /\ sess' = [sess EXCEPT
             ![s].localRepo = localDirectory,
             ![s].segmentationPath =
                 IF loaded THEN LoadedPath(localDirectory, wEnd) ELSE @,
             ![s].segmentationNode =
                 IF loaded THEN LoadedNode(localDirectory, wEnd) ELSE @,
             ![s].prPanel =
                 @ \/ loaded \/ (widget = "MorphoDepotReview" /\ returned)]
       /\ last' = [obs EXCEPT !.result = IF ~pulled THEN "false"
                                         ELSE IF loaded THEN "true" ELSE "raised"]

\* MorphoDepotWidget.onPRDoubleClicked: the panel is enabled when loadPR
\* returns True
LoadPR(s, k) == LoadPRFrom(s, k, "MorphoDepot")

\* MorphoDepotReviewWidget.onPRDoubleClicked: the panel is enabled whenever
\* loadPR returns
ReviewLoadPR(s, k) == LoadPRFrom(s, k, "MorphoDepotReview")

(***************************************************************************)
(* The tracker's answers to gh pr ready / review / merge                   *)
(***************************************************************************)
\* the status of a pull request as the review list shows it
PRState(p) ==
    IF p.state = "merged" THEN "Merged"
    ELSE IF p.isDraft THEN "Draft"
    ELSE "ReadyForReview"

\* gh pr ready that passes --undo
MarkReady_undo(q, k) == [q EXCEPT ![k].isDraft = TRUE]
MarkReady(q, k) == [q EXCEPT ![k].isDraft = FALSE]
\* gh pr ready without --undo
MarkDraft_withoutUndo(q, k) == [q EXCEPT ![k].isDraft = FALSE]
MarkDraft(q, k) == [q EXCEPT ![k].isDraft = TRUE]
\* a review command whose failure goes unnoticed: nothing is posted
AddReview_notPosted(k, kind, body) == prs

\* a review command followed by gh pr ready --undo whatever its kind
AddReview_demoting(k, kind, body) ==
    [prs EXCEPT ![k].review = [kind |-> kind, body |-> body], ![k].isDraft = TRUE]

\* only the latest review of a pull request is kept
AddReview(k, kind, body) ==
    [prs EXCEPT ![k].review = [kind |-> kind, body |-> body]]

\* the tracker refuses the approval of a pull request by its own author
SelfApproval(k, me) == prs[k].author = me

\* the tracker does not merge a draft
MergeAccepted(q, k) == ~q[k].isDraft /\ q[k].state = "open"

SquashMerge(rs, q, k) ==
    [rs EXCEPT ![q[k].repo].branches[Main] =
        @ \cup rs[HeadRepo(q[k].head.owner)].branches[q[k].head.branch]]

(***************************************************************************)
(* requestReview()                                                         *)
(***************************************************************************)
\* onRequestReview: when no pull request is found for the branch, onCommit
\* runs first (it does nothing without a commit message); then requestReview
\* marks the pull request it finds as ready.
RequestReview(s) ==
    \E fault \in CommitFaults \cup {"ready"}, emptyMessage \in BOOLEAN :
    LET obs == [NoLast EXCEPT !.op = "requestReview", !.s = s]
    IN
    /\ s \in active
    /\ sess[s].reviewButton
    /\ FaultAllowed(fault)
    /\ CountFault(fault)
    /\ UNCHANGED <<env, active, assignee>>
    /\ IF NoActiveBranch(s)
       THEN /\ fault = "none" /\ ~emptyMessage
            /\ UNCHANGED <<repos, prs, wc, sess>>
            /\ last' = [obs EXCEPT !.result = "raised"]
       ELSE
       \E pr \in {issuePR(s, "segmenter")} :
       IF pr # 0
       THEN /\ fault \in {"none", "ready"} /\ ~emptyMessage
            /\ UNCHANGED <<repos, wc, sess>>
            /\ prs' = IF fault = "ready" THEN prs ELSE MarkReady(prs, pr)
            /\ last' = [obs EXCEPT !.result = IF fault = "ready" THEN "raised" ELSE "ok",
                                   !.pr = pr, !.was = PRState(prs[pr]),
                                   !.cmds = <<"pr ready">>]
       ELSE IF emptyMessage
       THEN \* onCommit returns at once; requestReview finds no pull request
            /\ fault = "none"
            /\ UNCHANGED <<repos, prs, wc, sess>>
            /\ last' = [obs EXCEPT !.result = "noPR"]
       ELSE
       \E r \in {commitAndPush(s, IF fault = "ready" THEN "none" ELSE fault)} :
       LET done == [obs EXCEPT !.commit = r.result, !.push = r.push, !.cmds = r.cmds]
           w == r.wc[s][sess[s].localRepo]
       IN
       /\ r.met
       /\ repos' = r.repos
       /\ wc' = r.wc
       /\ sess' = [sess EXCEPT ![s].reviewButton = @ \/ r.result = "true"]
       /\ IF r.result = "raised"
          THEN /\ fault # "ready"
               /\ prs' = r.prs
               /\ last' = [done EXCEPT !.result = "raised"]
          ELSE
          \E pr1 \in {IF w.head = Detached THEN 0 ELSE PRFor(r.prs, s, w, "segmenter")} :
          IF pr1 = 0
          THEN /\ fault # "ready"
               /\ prs' = r.prs
               /\ last' = [done EXCEPT !.result = "noPR"]
          ELSE /\ prs' = IF fault = "ready" THEN r.prs ELSE MarkReady(r.prs, pr1)
               /\ last' = [done EXCEPT
                             !.result = IF fault = "ready" THEN "raised" ELSE "ok",
                             !.pr = pr1, !.was = PRState(r.prs[pr1]),
                             !.cmds = r.cmds \o <<"pr ready">>]

(***************************************************************************)
(* requestChanges(message)                                                 *)
(***************************************************************************)
RequestChanges(s, message) ==
    \E fault \in {"none", "review", "undo"} :
    LET obs == [NoLast EXCEPT !.op = "requestChanges", !.s = s]
        sent == [obs EXCEPT !.msg = message]
    IN
    /\ s \in active
    /\ sess[s].prPanel
    /\ FaultAllowed(fault)
    /\ CountFault(fault)
    /\ UNCHANGED <<env, active, repos, wc, sess, assignee>>
    /\ IF sess[s].localRepo = NoDir \/ NoActiveBranch(s)
       THEN /\ fault = "none"
            /\ prs' = prs
            /\ last' = [obs EXCEPT !.result = "raised"]
       ELSE
       \E pr \in {issuePR(s, "reviewer")} :
       IF pr = 0
       THEN \* pr['number'] of None
            /\ fault = "none"
            /\ prs' = prs
            /\ last' = [obs EXCEPT !.result = "raised"]
       ELSE IF fault = "review"
       THEN /\ prs' = prs
            /\ last' = [sent EXCEPT !.result = "raised", !.pr = pr, !.was = PRState(prs[pr]), !.cmds = <<"pr review">>]
       ELSE IF fault = "undo"
       THEN /\ prs' = AddReview(pr, "changes", message)
            /\ last' = [sent EXCEPT !.result = "raised", !.pr = pr, !.was = PRState(prs[pr]),
                                   !.cmds = <<"pr review", "pr ready --undo">>]
       ELSE /\ prs' = MarkDraft(AddReview(pr, "changes", message), pr)
            /\ last' = [sent EXCEPT !.result = "ok", !.pr = pr, !.was = PRState(prs[pr]),
                                   !.cmds = <<"pr review", "pr ready --undo">>]

(***************************************************************************)
(* approvePR(message)                                                      *)
(***************************************************************************)
ApprovePR(s, message) ==
    \E fault \in {"none", "review", "merge"} :
    LET obs == [NoLast EXCEPT !.op = "approvePR", !.s = s]
        sent == [obs EXCEPT !.msg = message]
    IN
    /\ s \in active
    /\ sess[s].prPanel
    /\ FaultAllowed(fault)
    /\ CountFault(fault)
    /\ UNCHANGED <<env, active, wc, sess, assignee>>
    /\ IF sess[s].localRepo = NoDir \/ NoActiveBranch(s)
       THEN /\ fault = "none"
            /\ prs' = prs /\ repos' = repos
            /\ last' = [obs EXCEPT !.result = "raised"]
       ELSE
       \E pr \in {issuePR(s, "reviewer")} :
       IF pr = 0
       THEN \* pr['number'] of None
            /\ fault = "none"
            /\ prs' = prs /\ repos' = repos
            /\ last' = [obs EXCEPT !.result = "raised"]
       ELSE IF fault = "review" \/ SelfApproval(pr, Me[s])
       THEN \* gh exits non-zero, gh() raises before the merge command
            /\ fault \in {"none", "review"}
            /\ SelfApproval(pr, Me[s]) => fault = "none"
            /\ prs' = prs /\ repos' = repos
            /\ last' = [sent EXCEPT !.result = "raised", !.pr = pr, !.was = PRState(prs[pr]), !.cmds = <<"pr review">>]
       ELSE
       \E reviewed \in {AddReview(pr, "approve", message)} :
       IF fault = "merge" \/ ~MergeAccepted(reviewed, pr)
       THEN /\ fault \in {"none", "merge"}
            /\ ~MergeAccepted(reviewed, pr) => fault = "none"
            /\ prs' = reviewed /\ repos' = repos
            /\ last' = [sent EXCEPT !.result = "raised", !.pr = pr, !.was = PRState(prs[pr]),
                                   !.cmds = <<"pr review", "pr merge">>]
       ELSE /\ fault = "none"
            /\ prs' = [reviewed EXCEPT ![pr].state = "merged"]
            /\ repos' = SquashMerge(repos, reviewed, pr)
            /\ last' = [sent EXCEPT !.result = "ok", !.pr = pr, !.was = PRState(prs[pr]),
                                   !.cmds = <<"pr review", "pr merge">>]

(***************************************************************************)
(* Specification                                                           *)
(***************************************************************************)
Next ==
    \/ \E s \in Sessions, i \in Issues : LoadIssue(s, i)
    \/ \E s \in Sessions, k \in 1 .. Len(prs) : LoadPR(s, k)
    \/ \E s \in Sessions : CommitAndPush(s)
    \/ \E s \in Sessions : RequestReview(s)
    \/ \E s \in Sessions, m \in Messages : RequestChanges(s, m)
    \/ \E s \in Sessions, m \in Messages : ApprovePR(s, m)

Spec == Init /\ [][Next]_vars

(***************************************************************************)
(* Properties                                                              *)
(***************************************************************************)
\* the working copy the session s has active, and the repository its
\* "upstream" remote resolves to
ActiveCopy(s) == wc[s][sess[s].localRepo]
UpstreamOf(s) == RepoByNWO(nameWithOwner(s, ActiveCopy(s), "upstream"))

\* the open pull requests of q for the repository r and the branch b
OpenPRs(q, r, b) ==
    {k \in 1 .. Len(q) : q[k].state = "open" /\ q[k].repo = r /\ q[k].title = b}

\* the operation recorded in l issued gh pr create
IssuedPRCreate(l) == Len(l.cmds) > 0 /\ l.cmds[1] = "pr create"

\* C1: at most one open pull request exists per (repository, branch); after
\* a successful commitAndPush exactly one open pull request has the upstream
\* repository as base and the active branch as title; and commitAndPush
\* issues the creation command only when the search found no open pull
\* request of that branch, so it never creates a second one.
C1_OneOpenPRPerBranch ==
    /\ \A j, k \in 1 .. Len(prs) :
          (/\ prs[j].state = "open" /\ prs[k].state = "open"
           /\ prs[j].repo = prs[k].repo /\ prs[j].title = prs[k].title) => j = k
    /\ last.commit = "true" =>
          Cardinality(OpenPRs(prs, UpstreamOf(last.s), ActiveCopy(last.s).head)) = 1
    /\ IssuedPRCreate(last) =>
          \A k \in OpenPRs(prs, UpstreamOf(last.s), ActiveCopy(last.s).head) :
              k = Len(prs) /\ last.commit = "true"

\* a later commitAndPush succeeded on a branch whose pull request has been
\* through a review transition, and found that pull request
C1_Witness ==
    /\ last.op = "commitAndPush" /\ last.result = "true" /\ last.pr # 0
    /\ ~prs[last.pr].isDraft /\ prs[last.pr].review.kind = "changes"
    /\ OpenPRs(prs, UpstreamOf(last.s), ActiveCopy(last.s).head) = {last.pr}

\* C2: a commitAndPush that returns False, and in particular every one whose
\* push carries the flag rejected, remote-rejected, remote-failure or error,
\* issues no pull-request creation command and leaves the pull requests as
\* they were.
C2_FailedPushCreatesNoPR ==
    [][(last'.commit = "false" \/
        last'.push \in {"rejected", "remote-rejected", "remote-failure", "error"})
       => (last'.commit = "false" /\ last'.cmds = <<>> /\ prs' = prs)]_vars

\* a commitAndPush returned False on a push rejected because the branch on
\* origin had moved on, while a pull request exists
C2_Witness ==
    /\ last.op = "commitAndPush" /\ last.result = "false"
    /\ last.push = "rejected"
    /\ Len(prs) > 0

\* the most recent operation was an approvePR whose approving review the
\* tracker answered with the self-approval refusal: the reviewer is the
\* author of the (ready, open) pull request found
SelfApprovalMet ==
    /\ last.op = "approvePR" /\ last.cmds # <<>>
    /\ last.was = "ReadyForReview"
    /\ prs[last.pr].author = Me[last.s]

\* C3: approvePR posts an approving review and then squash-merges; when the
\* tracker answers the review with the self-approval warning, approvePR
\* does not fail, the merge command is still issued and the pull request
\* ends merged.
C3_SelfApprovalStillMerges ==
    SelfApprovalMet =>
        /\ last.result = "ok"
        /\ last.cmds = <<"pr review", "pr merge">>
        /\ prs[last.pr].state = "merged"

C5_LoadIssueIdempotent ==
    [][(/\ last.op = "loadIssue" /\ last.result = "ok"
        /\ last'.op = "loadIssue" /\ last'.result = "ok"
        /\ last'.s = last.s /\ last'.issue = last.issue)
       => LET d == sess[last.s].localRepo
              b == BranchName(last.issue)
          IN /\ sess'[last.s].localRepo = d
             /\ wc'[last.s][d].head = b /\ wc[last.s][d].head = b
             /\ wc'[last.s][d].heads[b] = wc[last.s][d].heads[b]
             /\ DOMAIN wc'[last.s][d].heads = DOMAIN wc[last.s][d].heads
             /\ last'.cmds = <<>>]_vars

\* the user owns a fork of the upstream repository
OwnsFork(u) ==
    \E r \in DOMAIN repos : OwnerOf[r] = u /\ repos[r].parent = Upstream

\* C6: loadIssue of a fresh issue N of a repository the user does not own (no
\* local directory, no fork, no branch issue-N anywhere) forks, clones,
\* creates the local branch issue-N at the commit of upstream's main, makes it
\* the active branch, and no pull request is then found for it.
C6_FreshIssueStartsAtUpstreamMain ==
    [][\A s \in Sessions, n \in Issues :
        LET d == LocalDirectory(RepoName, BranchName(n))
            b == BranchName(n)
        IN (/\ last'.op = "loadIssue" /\ last'.s = s /\ last'.issue = n
            /\ last'.result = "ok"
            /\ d \notin DOMAIN wc[s]
            /\ OwnerOf[Upstream] # Me[s]
            /\ ~OwnsFork(Me[s])
            /\ \A r \in DOMAIN repos : b \notin DOMAIN repos[r].branches)
           => /\ last'.cmds = <<"repo fork", "repo clone">>
              /\ wc'[s][d].head = b
              /\ wc'[s][d].heads[b] = repos'[Upstream].branches[Main]
              /\ ~\E k \in 1 .. Len(prs') :
                     prs'[k].state = "open" /\ prs'[k].title = b]_vars

\* C7: loadIssue applies exactly one of three resolutions, in this order of
\* priority after the fetch of origin: the local branch issue-N exists, it is
\* checked out (no branch is created); else origin has issue-N, it is checked
\* out tracking origin/issue-N at origin's commit; else it is created.  A
\* branch is created anew only when neither exists.
C7_BranchResolutionPriority ==
    [][\A s \in Sessions, n \in Issues :
        LET d == LocalDirectory(RepoName, BranchName(n))
            b == BranchName(n)
            hadLocal == d \in DOMAIN wc[s] /\ b \in DOMAIN wc[s][d].heads
            onOrigin == b \in DOMAIN repos'[wc'[s][d].origin].branches
        IN (/\ last'.op = "loadIssue" /\ last'.s = s /\ last'.issue = n
            /\ last'.how # "none")
           => /\ last'.how = IF hadLocal THEN "local"
                             ELSE IF onOrigin THEN "origin" ELSE "new"
              /\ hadLocal =>
                    /\ DOMAIN wc'[s][d].heads = DOMAIN wc[s][d].heads
                    /\ wc'[s][d].tracking = wc[s][d].tracking
              /\ (~hadLocal /\ onOrigin) =>
                    /\ wc'[s][d].head = b
                    /\ wc'[s][d].tracking[b] = b
                    /\ wc'[s][d].heads[b] = repos'[wc'[s][d].origin].branches[b]
              /\ (~hadLocal /\ ~onOrigin) =>
                    /\ wc'[s][d].head = b
                    /\ wc'[s][d].tracking[b] = <<>>]_vars

\* on the second machine, after the first pushed issue-1 to origin, the
\* branch was checked out tracking origin's branch, with its commit
C7_Witness ==
    /\ last.op = "loadIssue" /\ last.s = "a2" /\ last.result = "ok"
    /\ last.how = "origin"
    /\ LET w == wc["a2"][LocalDirectory(RepoName, BranchName(last.issue))]
       IN /\ w.tracking[BranchName(last.issue)] = BranchName(last.issue)
          /\ w.heads[BranchName(last.issue)] # w.heads[Main]

\* C8: every change of a pull request follows NoPR -> Draft (commitAndPush),
\* Draft -> ReadyForReview (requestReview), ReadyForReview -> Merged
\* (approvePR), ReadyForReview -> ChangesRequested -> Draft (requestChanges):
\* a review is posted on a ready pull request only, a pull request is never
\* removed, and a merged one never changes.
C8_PRStateMachine ==
    [][/\ Len(prs') >= Len(prs)
       /\ \A k \in 1 .. Len(prs) :
             LET from == PRState(prs[k])
                 to == PRState(prs'[k])
             IN /\ prs'[k].repo = prs[k].repo /\ prs'[k].title = prs[k].title
                /\ from = "Merged" => prs'[k] = prs[k]
                /\ from # to =>
                      \/ from = "Draft" /\ to = "ReadyForReview"
                         /\ last'.op = "requestReview"
                      \/ from = "ReadyForReview" /\ to = "Merged"
                         /\ last'.op = "approvePR"
                      \/ from = "ReadyForReview" /\ to = "Draft"
                         /\ last'.op = "requestChanges"
                /\ prs'[k].review # prs[k].review => from = "ReadyForReview"
                /\ (last'.op \in {"requestChanges", "approvePR"} /\ last'.pr = k
                    /\ last'.cmds # <<>>) => from = "ReadyForReview"
       /\ \A k \in (Len(prs) + 1) .. Len(prs') :
             \/ PRState(prs'[k]) = "Draft" /\ last'.op = "commitAndPush"
             \/ PRState(prs'[k]) = "ReadyForReview" /\ last'.op = "requestReview"]_vars

C10_DraftFlagFollowsReviewTransitions ==
    [][/\ \A k \in 1 .. Len(prs) :
             /\ (last'.commit # "none" /\ last'.pr # k)
                   => prs'[k].isDraft = prs[k].isDraft
             /\ last'.op = "commitAndPush" => prs'[k].isDraft = prs[k].isDraft
             /\ prs'[k].isDraft # prs[k].isDraft =>
                   /\ last'.pr = k
                   /\ IF prs'[k].isDraft THEN last'.op = "requestChanges"
                      ELSE last'.op = "requestReview"
       /\ \A k \in (Len(prs) + 1) .. Len(prs') :
             prs'[k].isDraft \/ (last'.op = "requestReview" /\ last'.pr = k)
       /\ (last'.op = "requestReview" /\ last'.result = "ok")
             => ~prs'[last'.pr].isDraft
       /\ (last'.op = "requestChanges" /\ last'.result = "ok")
             => prs'[last'.pr].isDraft]_vars

\* a commitAndPush found the pull request of its branch ready for review and
\* left it so
C10_Witness ==
    /\ last.op = "commitAndPush" /\ last.result = "true" /\ last.pr # 0
    /\ ~prs[last.pr].isDraft /\ prs[last.pr].state = "open"

\* C11: when onRequestReview completes without an error (no exception, no
\* "commit failed" box, no "No pull request found" log), the active branch
\* has an open pull request that is not a draft: with no pull request before,
\* a commitAndPush ran first, created it, and it was then marked ready; a
\* draft became ready; a ready one stayed as it was.
C11_RequestReviewLeavesReadyPR ==
    [][(last'.op = "requestReview" /\ last'.result = "ok") =>
        LET s == last'.s
            k == last'.pr
            w == wc'[s][sess'[s].localRepo]
        IN /\ k \in 1 .. Len(prs')
           /\ prs'[k].state = "open" /\ ~prs'[k].isDraft
           /\ prs'[k].title = w.head
           /\ prs'[k].repo = RepoByNWO(nameWithOwner(s, w, "upstream"))
           /\ prs'[k].author = Me[s]
           /\ IF k <= Len(prs)
              THEN /\ last'.commit = "none"
                   /\ prs[k].state = "open"
                   /\ ~prs[k].isDraft => prs' = prs
              ELSE /\ last'.commit = "true"
                   /\ last'.cmds = <<"pr create", "pr ready">>
                   /\ k = Len(prs) + 1
                   /\ OpenPRs(prs, prs'[k].repo, prs'[k].title) = {}]_vars

\* onRequestReview found no pull request for the branch (the earlier one
\* was merged), forced a commitAndPush, and marked the new pull request ready
C11_Witness ==
    /\ last.op = "requestReview" /\ last.result = "ok"
    /\ last.commit = "true" /\ last.pr = Len(prs)
    /\ ~prs[last.pr].isDraft
    /\ \E j \in 1 .. Len(prs) - 1 : prs[j].state = "merged"

(***************************************************************************)
(* Release and preview loads (Release and Search tabs)                     *)
(***************************************************************************)
\* gh search repos --owner=@me -- topic:morphodepot
ownedRepoList(u) == {r \in DOMAIN repos : OwnerOf[r] = u /\ repos[r].topic}

\* the body shared by loadRepoForRelease and loadRepoForPreview: clone into
\* <directory>/<repoName> unless it exists, make it the active working copy,
\* check out main, loadFromLocalRepository(remoteName="origin"); the
\* segmentation node and path of the session are left as they were
LoadMainOf(s, r, op) ==
    \E fault \in {"none", "clone", "load"} :
    LET localDirectory == <<RepoName>>
        exists == localDirectory \in DOMAIN wc[s]
        obs == [NoLast EXCEPT !.op = op, !.s = s,
                              !.cmds = IF exists THEN <<>> ELSE <<"repo clone">>]
    IN
    /\ s \in active
    /\ FaultAllowed(fault)
    /\ CountFault(fault)
    /\ UNCHANGED <<env, active, repos, prs, assignee>>
    /\ IF ~exists /\ fault = "clone"
       THEN /\ wc' = wc
            /\ sess' = sess
            /\ last' = [obs EXCEPT !.result = "raised"]
       ELSE
       \E w \in {IF exists THEN wc[s][localDirectory] ELSE CloneOf(repos, r)} :
       /\ fault # "clone"
       /\ wc' = [wc EXCEPT ![s] = (localDirectory :> [w EXCEPT !.head = Main]) @@ @]
       /\ sess' = [sess EXCEPT
             ![s].localRepo = localDirectory,
             ![s].makeReleaseButton = @ \/ (op = "loadRepoForRelease" /\ fault # "load")]
       /\ last' = [obs EXCEPT !.result = IF fault = "load" THEN "raised" ELSE "true"]

\* onReleaseRepoDoubleClicked on an entry of the owned repositories
LoadRepoForRelease(s, r) == r \in ownedRepoList(Me[s]) /\ LoadMainOf(s, r, "loadRepoForRelease")

\* previewRepository of a search result
LoadRepoForPreview(s, r) == r \in DOMAIN repos /\ LoadMainOf(s, r, "loadRepoForPreview")

\* the creator's own session with one issue assigned, and the Release and
\* Search tabs in use
InitRelease ==
    /\ active = {"c1"}
    /\ faults = 0
    /\ repos = InitialRepos(active)
    /\ prs = <<>>
    /\ wc = [s \in Sessions |-> <<>>]
    /\ sess = [s \in Sessions |-> NewLogic]
    /\ assignee = <<"cre", None>>
    /\ env = ConfiguredEnv
    /\ last = NoLast

NextRelease ==
    \/ Next
    \/ \E s \in Sessions, r \in RepoIds : LoadRepoForRelease(s, r)
    \/ \E s \in Sessions, r \in RepoIds : LoadRepoForPreview(s, r)

SpecRelease == InitRelease /\ [][NextRelease]_vars

\* C12: every operation that reads the "upstream" remote of the active
\* working copy (the pull request creation of commitAndPush, requestReview's
\* pr ready, requestChanges, approvePR) runs on a working copy that has an
\* "upstream" remote, whichever load made that working copy active.
C12_UpstreamPresentWhenRead ==
    [][(\/ last'.op \in {"requestChanges", "approvePR"}
        \/ (last'.op \in {"commitAndPush", "requestReview"} /\ last'.cmds # <<>>))
       => LET s == last'.s
          IN /\ sess[s].localRepo \in DOMAIN wc[s]
             /\ HasRemote(wc[s][sess[s].localRepo], "upstream")]_vars

\* C13: the bootstrap of loadIssue.  When the local directory exists, no fork
\* and no clone is made.  Otherwise a fork is made exactly when the user
\* owns neither the issue's repository nor a fork of it, and then one clone
\* is made (none only when the fork command failed).
C13_ForkIffNoForkThenOneClone ==
    [][last'.op = "loadIssue" =>
        LET s == last'.s
            d == LocalDirectory(RepoName, BranchName(last'.issue))
            ownsCopy == OwnerOf[Upstream] = Me[s] \/ OwnsFork(Me[s])
        IN IF d \in DOMAIN wc[s]
           THEN last'.cmds = <<>>
           ELSE /\ Contains(last'.cmds, "repo fork") <=> ~ownsCopy
                /\ \/ last'.cmds \in {<<"repo clone">>, <<"repo fork", "repo clone">>}
                   \/ last'.cmds = <<"repo fork">> /\ last'.result = "raised"]_vars

(***************************************************************************)
(* The command executor: gh(command) and ghJSON(command)                   *)
(***************************************************************************)
Locales == {"C", "de_DE.UTF-8", "en_US.UTF-8"}
GhPaths == {"", "/usr/bin/gh"}
Commands == {<<"pr", "ready", "7">>, <<"release", "list">>, <<"search", "issues">>}
CommandClasses == {"str", "list", "int"}
\* process.returncode, as str() prints it
ReturnCodes == {"0", "1", "4"}
\* what the tool wrote to stdout: nothing, an empty JSON list, a JSON list of
\* one object, text that is not JSON
Stdouts == {<<>>, <<"[", "]">>, <<"[", "{", "}", "]">>, <<"HTTP", "502">>}

\* json.loads on the outputs above
JSONLoads(text) ==
    CASE text = <<"[", "]">> -> [ok |-> TRUE, value |-> <<>>]
      [] text = <<"[", "{", "}", "]">> -> [ok |-> TRUE, value |-> <<"{}">>]
      [] OTHER -> [ok |-> FALSE, value |-> <<>>]

NotFound == <<"Error,", "gh", "not", "found">>

\* the test of the exit status
GhFailed(returncode) == returncode # "0"

\* f"gh command failed: {' '.join(commandList)}\nOutput: {result}"
ErrorMessage(commandList, result) ==
    <<"gh command failed:">> \o commandList \o <<"Output:">> \o result

\* gh(command) in the process e.  x is what the run meets: the class of the
\* command argument, whether the locale en_US.UTF-8 is installed, whether
\* launching or waiting raises, the exit status and the output.  Returns
\* the outcome, the locale left behind and the subprocesses launched.
gh(e, command, x) ==
    LET out == [kind |-> "returned", value |-> <<>>, locale |-> e.locale, runs |-> <<>>]
    IN
    IF e.ghExecutablePath = ""
    THEN [out EXCEPT !.value = NotFound]
    ELSE IF x.class \notin {"str", "list"}
    THEN \* commandList is never bound
         [out EXCEPT !.kind = "raised", !.value = <<"UnboundLocalError">>]
    ELSE
    LET commandList == command
        originalLocale == e.locale
    IN
    IF ~x.localeInstalled
    THEN [out EXCEPT !.kind = "raised", !.value = <<"locale.Error">>]
    ELSE IF x.launch = "raises"
    THEN [out EXCEPT !.kind = "raised", !.value = <<"OSError">>,
                     !.locale = "en_US.UTF-8"]
    ELSE IF x.wait = "raises"
    THEN [out EXCEPT !.kind = "raised", !.value = <<"UnicodeDecodeError">>,
                     !.locale = "en_US.UTF-8", !.runs = <<commandList>>]
    ELSE IF GhFailed(x.returncode)
    THEN [out EXCEPT !.kind = "raised",
                     !.value = ErrorMessage(commandList, x.stdout),
                     !.locale = originalLocale, !.runs = <<commandList>>]
    ELSE [out EXCEPT !.value = x.stdout,
                     !.locale = originalLocale, !.runs = <<commandList>>]

\* ghJSON(command)
ghJSON(e, command, x) ==
    LET r == gh(e, command, x)
        jsonString == r.value
    IN IF r.kind = "raised" THEN r
       ELSE IF jsonString # <<>>
       THEN IF JSONLoads(jsonString).ok
            THEN [r EXCEPT !.value = JSONLoads(jsonString).value]
            ELSE [r EXCEPT !.kind = "raised", !.value = <<"JSONDecodeError">>]
       ELSE [r EXCEPT !.value = <<>>]

RunInputs ==
    [class : CommandClasses, localeInstalled : BOOLEAN,
     launch : {"ok", "raises"}, wait : {"ok", "raises"},
     returncode : ReturnCodes, stdout : Stdouts]

\* one fault at most is met by a run; what lies behind it is not looked at
Canonical(e, x) ==
    /\ (e.ghExecutablePath = "" \/ x.class = "int") =>
           x.localeInstalled /\ x.launch = "ok"
    /\ ~x.localeInstalled => x.launch = "ok"
    /\ x.launch = "raises" => x.wait = "ok"
    /\ (x.launch = "raises" \/ x.wait = "raises") =>
           x.returncode = "0" /\ x.stdout = <<>>
    /\ (e.ghExecutablePath = "" \/ x.class = "int" \/ ~x.localeInstalled) =>
           x.wait = "ok" /\ x.returncode = "0" /\ x.stdout = <<>>

Gh(command, x) ==
    \E r \in {gh(env, command, x)} :
    /\ Canonical(env, x)
    /\ env' = [env EXCEPT !.locale = r.locale]
    /\ last' = [NoLast EXCEPT !.op = "gh", !.result = r.kind, !.arg = x,
                              !.cmds = r.runs, !.ret = r.value]
    /\ UNCHANGED <<active, faults, repos, prs, wc, sess, assignee>>

GhJSON(command, x) ==
    \E r \in {ghJSON(env, command, x)} :
    /\ Canonical(env, x)
    /\ env' = [env EXCEPT !.locale = r.locale]
    /\ last' = [NoLast EXCEPT !.op = "ghJSON", !.result = r.kind, !.arg = x,
                              !.cmds = r.runs, !.ret = r.value]
    /\ UNCHANGED <<active, faults, repos, prs, wc, sess, assignee>>

\* a process in any host locale, with or without a configured gh
InitGh ==
    /\ active = {"c1"}
    /\ faults = 0
    /\ repos = InitialRepos(active)
    /\ prs = <<>>
    /\ wc = [s \in Sessions |-> <<>>]
    /\ sess = [s \in Sessions |-> NewLogic]
    /\ assignee = InitialAssignee(active)
    /\ env \in [locale : Locales, ghExecutablePath : GhPaths]
    /\ last = NoLast

NextGh ==
    \/ \E c \in Commands, x \in RunInputs : Gh(c, x)
    \/ \E c \in Commands, x \in RunInputs : GhJSON(c, x)

SpecGh == InitGh /\ [][NextGh]_vars

\* C14: when a gh invocation ends (exit status zero or not, or an exception
\* while launching or waiting for the subprocess), the process locale is
\* what it was before the invocation.
C14_LocaleRestoredAfterGh ==
    [][last'.op \in {"gh", "ghJSON"} => env'.locale = env.locale]_vars

\* C15: a gh invocation whose subprocess exits with a non-zero status fails
\* to its caller with an error that carries the attempted command, the exit
\* code and the captured output, and the command was run once.
C15_NonZeroExitRaisesWithDetails ==
    (/\ last.op = "gh"
     /\ last.cmds # <<>>
     /\ last.arg.wait = "ok"
     /\ last.arg.returncode # "0")
    => /\ last.result = "raised"
       /\ Len(last.cmds) = 1
       /\ \A k \in 1 .. Len(last.cmds[1]) : Contains(last.ret, last.cmds[1][k])
       /\ \A k \in 1 .. Len(last.arg.stdout) : Contains(last.ret, last.arg.stdout[k])
       /\ Contains(last.ret, last.arg.returncode)

\* C16: ghJSON returns an empty result and raises nothing whenever the
\* tool's output is empty or is not JSON.
C16_GhJSONEmptyOnUnparsable ==
    (/\ last.op = "ghJSON"
     /\ last.arg.class # "int" /\ last.arg.localeInstalled
     /\ last.arg.launch = "ok" /\ last.arg.wait = "ok"
     /\ last.arg.returncode = "0"
     /\ (last.cmds = <<>> \/ ~JSONLoads(last.arg.stdout).ok))
    => last.result = "returned" /\ last.ret = <<>>

(***************************************************************************)
(* nameWithOwner(remote) over the repository names the accession form      *)
(* accepts                                                                 *)
(***************************************************************************)
\* account names: letters, digits and single dashes
Owners == {"cre", "ann", "Morpho-Cloud"}

\* repository names matching [\w.-]+ ; a dot is a token of its own
RepoNames ==
    {<<"r">>, <<"skull">>, <<"my-scan_1">>, <<"Mus_musculus-01">>, <<"x">>,
     <<"scan", ".", "v2">>, <<"v1", ".", "0">>, <<"a", ".", "b", ".", "c">>,
     <<"specimen", ".", "git">>}

\* the URL gh gives the remote of a clone of owner/name
URLFor(p, owner, name) ==
    IF p = "ssh"
    THEN <<"git", "@", "github", ".", "com", ":", owner, "/">> \o name \o <<".", "git">>
    ELSE <<"https", ":", "/", "/", "github", ".", "com", "/", owner, "/">> \o name \o <<".", "git">>

\* nameWithOwner(remote) on a working copy whose remote has the URL of
\* owner/name and whose HEAD is `head`
NameWithOwner(p, owner, name, remote, head) ==
    LET x == [protocol |-> p, owner |-> owner, name |-> name, remote |-> remote,
              head |-> head]
        obs == [NoLast EXCEPT !.op = "nameWithOwner", !.arg = x]
    IN
    /\ last' = IF head = Detached
               THEN \* active_branch of a detached HEAD
                    [obs EXCEPT !.result = "raised", !.ret = <<"TypeError">>]
               ELSE [obs EXCEPT !.result = "returned",
                                !.ret = ParseURL(URLFor(p, owner, name))]
    /\ UNCHANGED <<active, faults, repos, prs, wc, sess, assignee, env>>

InitNames == InitRelease

NextNames ==
    \E p \in {"ssh", "https"}, owner \in Owners, name \in RepoNames,
       remote \in {"origin", "upstream"}, head \in {Main, Detached} :
        NameWithOwner(p, owner, name, remote, head)

SpecNames == InitNames /\ [][NextNames]_vars

\* C17: for every owner and every repository name the form accepts,
\* nameWithOwner on the SSH and on the HTTPS URL of owner/name returns
\* exactly owner/name.
C17_NameWithOwnerRoundTrip ==
    (last.op = "nameWithOwner" /\ last.arg.head # Detached)
    => /\ last.result = "returned"
       /\ last.ret = <<last.arg.owner, "/">> \o last.arg.name

(***************************************************************************)
(* getReleases() and createRelease(releaseNotes)                           *)
(***************************************************************************)
MaxVersion == 11

Digits == <<"0", "1", "2", "3", "4", "5", "6", "7", "8", "9">>

\* str.isdigit
IsDigit(t) == Len(t) > 0 /\ \A k \in 1 .. Len(t) : \E d \in 1 .. 10 : Digits[d] = t[k]

\* int(t) of a string of digits
RECURSIVE IntOf(_)
IntOf(t) ==
    IF Len(t) = 0 THEN 0
    ELSE 10 * IntOf(SubSeq(t, 1, Len(t) - 1))
         + (CHOOSE d \in 0 .. 9 : Digits[d + 1] = t[Len(t)])

\* the digits f"{n}" prints
RECURSIVE StrOf(_)
StrOf(n) ==
    IF n < 10 THEN <<Digits[n + 1]>>
    ELSE StrOf(n \div 10) \o <<Digits[(n % 10) + 1]>>

\* tag names a repository may carry besides those createRelease made
TagPool ==
    {<<"v", "1">>, <<"v", "3">>, <<"v", "0", "2">>, <<"v", "9">>,
     <<"v", "b", "2">>, <<"v">>, <<"1", "0">>}

\* gh release list --repo <origin> --json name,tagName
getReleases(s, w) == repos[RepoByNWO(nameWithOwner(s, w, "origin"))].releases

\* a version number taken from the number of releases instead of the largest
NextVersion_byCount(releases) == Cardinality(releases) + 1

\* the version createRelease computes from the listed releases
NextVersion(releases) ==
    LET tagNames == {t \in releases : Len(t) > 0 /\ t[1] = "v"}
        versions == {IntOf(Tail(t)) : t \in {u \in tagNames : IsDigit(Tail(u))}}
    IN IF versions = {} THEN 1 ELSE MaxOf(versions) + 1

\* onMakeRelease: createRelease(releaseNotes)
CreateRelease(s, releaseNotes) ==
    \E fault \in {"none", "list", "create"} :
    LET w == wc[s][sess[s].localRepo]
        origin == RepoByNWO(nameWithOwner(s, w, "origin"))
        releases == getReleases(s, w)
        nextVersion == NextVersion(releases)
        tag == <<"v">> \o StrOf(nextVersion)
        obs == [NoLast EXCEPT !.op = "createRelease", !.s = s, !.msg = releaseNotes,
                              !.arg = releases]
    IN
    /\ s \in active
    /\ sess[s].makeReleaseButton
    /\ FaultAllowed(fault)
    /\ CountFault(fault)
    /\ UNCHANGED <<env, active, prs, wc, sess, assignee>>
    /\ IF w.head = Detached \/ fault = "list"
       THEN /\ w.head = Detached => fault = "none"
            /\ repos' = repos
            /\ last' = [obs EXCEPT !.result = "raised"]
       ELSE /\ nextVersion <= MaxVersion
            /\ IF fault = "create" \/ tag \in releases
               THEN \* the tracker refuses, gh exits non-zero
                    /\ tag \in releases => fault = "none"
                    /\ repos' = repos
                    /\ last' = [obs EXCEPT !.result = "raised", !.ret = tag,
                                           !.cmds = <<"release create">>]
               ELSE /\ repos' = [repos EXCEPT ![origin].releases = @ \cup {tag}]
                    /\ last' = [obs EXCEPT !.result = "ok", !.ret = tag,
                                           !.cmds = <<"release create">>]

\* the creator's repository with any releases published or deleted by hand
InitTags ==
    /\ active = {"c1"}
    /\ faults = 0
    /\ \E T \in SUBSET TagPool :
          repos = (Upstream :> [UpstreamRepo EXCEPT !.releases = T])
    /\ prs = <<>>
    /\ wc = [s \in Sessions |-> <<>>]
    /\ sess = [s \in Sessions |-> NewLogic]
    /\ assignee = <<None, None>>
    /\ env = ConfiguredEnv
    /\ last = NoLast

NextTags ==
    \/ \E s \in Sessions, r \in RepoIds : LoadRepoForRelease(s, r)
    \/ \E s \in Sessions, m \in Messages : CreateRelease(s, m)

SpecTags == InitTags /\ [][NextTags]_vars

\* the number of a tag v<integer>, 0 for any other tag
TagNumber(t) ==
    IF Len(t) > 1 /\ t[1] = "v" /\ IsDigit(Tail(t)) THEN IntOf(Tail(t)) ELSE 0

\* C18: createRelease creates the tag v(1 + the largest number among the
\* existing v<integer> tags), v1 when there is none; from {v1, v3} it creates
\* v4; the created tag is none of the existing tags and its number exceeds
\* the number of every existing v<integer> tag, so created tags increase.
C18_NextReleaseTag ==
    [][(last'.op = "createRelease" /\ last'.result = "ok") =>
        LET r == wc[last'.s][sess[last'.s].localRepo].origin
            before == repos[r].releases
            tag == last'.ret
        IN /\ repos'[r].releases = before \cup {tag}
           /\ tag \notin before
           /\ \A t \in before : TagNumber(t) < TagNumber(tag)
           /\ \/ TagNumber(tag) = 1 /\ \A t \in before : TagNumber(t) = 0
              \/ \E t \in before : TagNumber(t) > 0 /\ TagNumber(tag) = TagNumber(t) + 1
           /\ tag = <<"v">> \o StrOf(TagNumber(tag))
           /\ before = {<<"v", "1">>, <<"v", "3">>} => tag = <<"v", "4">>]_vars

\* from the releases {v1, v3} createRelease made v4, then v5
C18_Witness ==
    /\ last.op = "createRelease" /\ last.result = "ok"
    /\ last.arg = {<<"v", "1">>, <<"v", "3">>, <<"v", "4">>}
    /\ last.ret = <<"v", "5">>

(***************************************************************************)
(* Branch names of issues, written out with their dash and digits          *)
(***************************************************************************)
MaxIssue == 12

\* a branch name that keeps only the last digit of the issue number
IssueBranch_lastDigit(n) == <<"issue", "-">> \o StrOf(n % 10)

\* branchName = f"issue-{issueNumber}"
IssueBranch(n) == <<"issue", "-">> \o StrOf(n)

\* issueNumber = branchName.split("-")[1]
IssueNumberOf(branchName) == Split(branchName, "-")[2]

\* loadIssue names the branch of issue n
NameBranch(n) ==
    /\ last' = [NoLast EXCEPT !.op = "branchName", !.issue = n, !.ret = IssueBranch(n)]
    /\ UNCHANGED <<active, faults, repos, prs, wc, sess, assignee, env>>

\* commitAndPush on the branch of issue n writes the body of the pull request
WriteBody(n) ==
    LET branchName == IssueBranch(n)
        issueNumber == IssueNumberOf(branchName)
    IN
    /\ last' = [NoLast EXCEPT !.op = "prBody", !.issue = n, !.arg = branchName,
                              !.ret = <<"Fixes", "#">> \o issueNumber]
    /\ UNCHANGED <<active, faults, repos, prs, wc, sess, assignee, env>>

\* prList compares the title of the pull request made for issue n with the
\* open issue m of the repository
MatchIssue(n, m) ==
    LET title == IssueBranch(n)
    IN
    /\ last' = [NoLast EXCEPT !.op = "issueTitle", !.issue = n, !.pr = m,
                              !.arg = title,
                              !.result = IF title = IssueBranch(m) THEN "matched"
                                         ELSE "issue not found"]
    /\ UNCHANGED <<active, faults, repos, prs, wc, sess, assignee, env>>

InitBranches == InitRelease

NextBranches ==
    \/ \E n \in 1 .. MaxIssue : NameBranch(n)
    \/ \E n \in 1 .. MaxIssue : WriteBody(n)
    \/ \E n \in 1 .. MaxIssue, m \in 1 .. MaxIssue : MatchIssue(n, m)

SpecBranches == InitBranches /\ [][NextBranches]_vars

\* C19: the branch of issue N is exactly issue-N (issue 7 gives issue-7,
\* issue 12 gives issue-12); the number read back from the branch name for
\* the pull request body is N; the pull request of issue N is matched with
\* issue M exactly when M = N, so two issues never share a branch.
C19_BranchNameBijection ==
    /\ last.op = "branchName" =>
          /\ SubSeq(last.ret, 1, 2) = <<"issue", "-">>
          /\ IsDigit(SubSeq(last.ret, 3, Len(last.ret)))
          /\ IntOf(SubSeq(last.ret, 3, Len(last.ret))) = last.issue
          /\ last.ret[3] # "0"
          /\ last.issue = 7 => last.ret = <<"issue", "-", "7">>
          /\ last.issue = 12 => last.ret = <<"issue", "-", "1", "2">>
    /\ last.op = "prBody" =>
          /\ SubSeq(last.ret, 1, 2) = <<"Fixes", "#">>
          /\ IntOf(SubSeq(last.ret, 3, Len(last.ret))) = last.issue
    /\ last.op = "issueTitle" =>
          (last.result = "matched" <=> last.pr = last.issue)

\* the pull request of issue 11 (issue-11) was compared with issue 1 and
\* not matched
C19_Witness ==
    /\ last.op = "issueTitle" /\ last.issue = 11 /\ last.pr = 1
    /\ last.arg = <<"issue", "-", "1", "1">>
    /\ last.result = "issue not found"

(***************************************************************************)
(* The topic filter of issueList and prList                                *)
(***************************************************************************)
\* gh search issues --assignee=@me --state open, filtered by morphoRepos
issueList(me) ==
    {i \in Issues : assignee[i] = me /\ NWO(Upstream) \in morphoRepos}

\* the owner of repository r removes the morphodepot topic, or adds it again
\* as createAccessionRepo did
EditTopic(r, b) ==
    /\ r \in DOMAIN repos
    /\ repos[r].topic # b
    /\ repos' = [repos EXCEPT ![r].topic = b]
    /\ last' = [NoLast EXCEPT !.op = "editTopic"]
    /\ UNCHANGED <<env, active, faults, prs, wc, sess, assignee>>

InitTopic == InitRelease

NextTopic ==
    \/ Next
    \/ \E r \in RepoIds, b \in BOOLEAN : EditTopic(r, b)

SpecTopic == InitTopic /\ [][NextTopic]_vars

\* C20: every issue issueList returns and every pull request prList returns
\* for either role belongs to a repository that carries the topic, and so
\* does the pull request issuePR selects.
C20_ListsWithinTopicRepos ==
    \A s \in active :
        /\ issueList(Me[s]) # {} => repos[Upstream].topic
        /\ \A role \in {"segmenter", "reviewer"} :
              /\ \A k \in prList(prs, Me[s], role) : repos[prs[k].repo].topic
              /\ issuePR(s, role) # 0 => repos[prs[issuePR(s, role)].repo].topic

\* an open pull request and an assigned issue exist in a repository that
\* no longer carries the topic, and the lists leave them out
C20_Witness ==
    /\ \E k \in 1 .. Len(prs) :
          prs[k].state = "open" /\ prs[k].author = "cre" /\ ~repos[prs[k].repo].topic
    /\ assignee[1] = "cre" /\ ~repos[Upstream].topic
    /\ prList(prs, "cre", "segmenter") = {}
    /\ prList(prs, "cre", "reviewer") = {}
    /\ issueList("cre") = {}

\* C21: every pull request commitAndPush creates is a draft, has the
\* repository of the "upstream" remote as base, the active branch name as
\* title, <owner of origin>:<branch> as head and the body "Fixes #N" with N
\* the number in the branch name issue-N; no pull request with another kind
\* of title is created, and nothing but commitAndPush creates one.
C21_CreatedPRFields ==
    [][\A k \in (Len(prs) + 1) .. Len(prs') :
        LET s == last'.s
            w == wc'[s][sess'[s].localRepo]
            p == prs'[k]
        IN /\ last'.commit = "true"
           /\ IssuedPRCreate(last')
           /\ k = Len(prs) + 1 /\ Len(prs') = k
           /\ p.state = "open"
           /\ p.isDraft \/ last'.cmds = <<"pr create", "pr ready">>
           /\ last'.op = "commitAndPush" => p.isDraft
           /\ p.repo = RepoByNWO(nameWithOwner(s, w, "upstream"))
           /\ p.title = w.head
           /\ p.head = [owner |-> Split(nameWithOwner(s, w, "origin"), "/")[1],
                        branch |-> w.head]
           /\ p.head.branch \in DOMAIN repos'[w.origin].branches
           /\ \E n \in Issues : p.title = BranchName(n) /\ p.body = <<"Fixes", NumStr[n]>>
           /\ p.author = Me[s]]_vars

\* ann's commitAndPush created the draft pull request of issue-1 from the
\* fork ann/r to cre/r
C21_Witness ==
    /\ last.op = "commitAndPush" /\ last.result = "true"
    /\ last.cmds = <<"pr create">>
    /\ Len(prs) > 0
    /\ prs[Len(prs)].repo = "cre/r"
    /\ prs[Len(prs)].head = [owner |-> <<"ann">>, branch |-> BranchName(1)]
    /\ prs[Len(prs)].isDraft

(***************************************************************************)
(* All tabs in use by every session, every external command succeeding     *)
(***************************************************************************)
InitLookup ==
    /\ active \in {{"a1", "c1"}, {"a1"}, {"a2"}}
    /\ faults = MaxFaults
    /\ repos = InitialRepos(active)
    /\ prs = <<>>
    /\ wc = [s \in Sessions |-> <<>>]
    /\ sess = [s \in Sessions |-> NewLogic]
    /\ assignee = InitialAssignee(active)
    /\ env = ConfiguredEnv
    /\ last = NoLast

SpecLookup == InitLookup /\ [][NextRelease]_vars

\* the open pull requests of the role's search whose title is the active
\* branch of session s and whose repository is the one the "upstream"
\* remote of the active working copy points at
AssociatedPRs(s, role) ==
    LET d == sess[s].localRepo IN
    IF d = NoDir THEN {}
    ELSE IF wc[s][d].upstream = None THEN {}
    ELSE {k \in 1 .. Len(prs) :
            /\ prs[k].state = "open"
            /\ repos[prs[k].repo].topic
            /\ role = "segmenter" => prs[k].author = Me[s]
            /\ role = "reviewer" => OwnerOf[prs[k].repo] = Me[s]
            /\ prs[k].title = wc[s][d].head
            /\ prs[k].repo = wc[s][d].upstream}

\* C22: on a working copy with an active branch, issuePR(role) returns a
\* pull request only if it is in the role's list of open pull requests, its
\* title is the active branch and its repository is the one named by
\* "upstream"; it returns one whenever one exists; it returns none when
\* there is none, when no working copy is active, and when there is no
\* "upstream" remote.
C22_IssuePRSoundAndComplete ==
    \A s \in active : \A role \in {"segmenter", "reviewer"} :
        ~NoActiveBranch(s) =>
            LET k == issuePR(s, role) IN
            /\ k # 0 => k \in AssociatedPRs(s, role) /\ k \in prList(prs, Me[s], role)
            /\ k = 0 <=> AssociatedPRs(s, role) = {}
            /\ sess[s].localRepo = NoDir => k = 0
            /\ (sess[s].localRepo # NoDir /\ ~HasRemote(ActiveCopy(s), "upstream")) => k = 0

\* cre reviews ann's open pull request of issue-1 on a copy of ann's fork;
\* ann, as reviewer, finds none although ann's branch and upstream match;
\* an earlier pull request of the branch was merged and is not returned
C22_Witness ==
    /\ active = {"a1", "c1"}
    /\ issuePR("c1", "reviewer") # 0
    /\ prs[issuePR("c1", "reviewer")].author = "ann"
    /\ ActiveCopy("c1").origin = "ann/r"
    /\ issuePR("a1", "segmenter") = issuePR("c1", "reviewer")
    /\ issuePR("a1", "reviewer") = 0
    /\ issuePR("c1", "segmenter") = 0
    /\ \E j \in 1 .. Len(prs) : prs[j].state = "merged" /\ prs[j].title = ActiveCopy("a1").head


\* C23: when loadIssue finds the local branch issue-N it forks and clones
\* nothing, checks the branch out and rebases it onto upstream's main and
\* onto nothing of origin; when the rebase stops, the call raises, the branch
\* keeps its commit, and the segmentation of the session is not replaced.
C23_ExistingLocalBranchRebased ==
    [][(last'.op = "loadIssue" /\ last'.how = "local") =>
        LET s == last'.s
            d == sess'[s].localRepo
            b == BranchName(last'.issue)
            up == repos[wc'[s][d].upstream].branches[Main]
        IN /\ d \in DOMAIN wc[s]
           /\ b \in DOMAIN wc[s][d].heads
           /\ last'.cmds = <<>>
           /\ wc'[s][d].head \in {b, Detached}
           /\ wc'[s][d].head = b =>
                 wc'[s][d].heads[b] = wc[s][d].heads[b] \cup up
           /\ wc'[s][d].head = Detached =>
                 /\ last'.result = "raised"
                 /\ wc'[s][d].heads[b] = wc[s][d].heads[b]
                 /\ ~(up \subseteq wc[s][d].heads[b])
                 /\ ~(wc[s][d].heads[b] \subseteq up)
                 /\ sess'[s].segmentationNode = sess[s].segmentationNode
                 /\ sess'[s].segmentationPath = sess[s].segmentationPath
                 /\ sess'[s].forkManagement = sess[s].forkManagement
                 /\ sess'[s].reviewButton = sess[s].reviewButton]_vars

\* the rebase of an existing local branch stopped on a conflict
C23_Witness ==
    /\ last.op = "loadIssue" /\ last.how = "local" /\ last.result = "raised"
    /\ ActiveCopy(last.s).head = Detached
    /\ BranchName(last.issue) \in DOMAIN ActiveCopy(last.s).heads

\* an existing local branch was rebased while origin's branch was ahead of it
C23_WitnessOriginAhead ==
    /\ last.op = "loadIssue" /\ last.how = "local" /\ last.result = "ok"
    /\ LET w == ActiveCopy(last.s) IN
       /\ w.head \in DOMAIN w.refs
       /\ ~(w.refs[w.head] \subseteq w.heads[w.head])


\* C24: whenever commitAndPush attempts a push while origin has the branch,
\* the local branch has first been rebased onto origin's commit of it.
C24_RebasedOntoOriginBeforePush ==
    [][last'.push # "none" =>
        LET s == last'.s
            d == sess[s].localRepo
            b == wc[s][d].head
            o == wc[s][d].origin
        IN b \in DOMAIN repos[o].branches =>
               repos[o].branches[b] \subseteq wc'[s][d].heads[b]]_vars


(***************************************************************************)
(* The reviewer working in the MorphoDepotReview module                    *)
(***************************************************************************)
ReviewModuleSessions == {"c1"}

InitReview ==
    /\ active = {"a1", "c1"}
    /\ faults = 0
    /\ repos = InitialRepos(active)
    /\ prs = <<>>
    /\ wc = [s \in Sessions |-> <<>>]
    /\ sess = [s \in Sessions |-> NewLogic]
    /\ assignee = InitialAssignee(active)
    /\ env = ConfiguredEnv
    /\ last = NoLast

NextReview ==
    \/ \E s \in Sessions \ ReviewModuleSessions, i \in Issues : LoadIssue(s, i)
    \/ \E s \in Sessions \ ReviewModuleSessions : CommitAndPush(s)
    \/ \E s \in Sessions \ ReviewModuleSessions : RequestReview(s)
    \/ \E s \in ReviewModuleSessions, k \in 1 .. Len(prs) : ReviewLoadPR(s, k)
    \/ \E s \in ReviewModuleSessions, m \in Messages : RequestChanges(s, m)
    \/ \E s \in ReviewModuleSessions, m \in Messages : ApprovePR(s, m)

SpecReview == InitReview /\ [][NextReview]_vars

\* C25: when the pull of loadPR fails, loadPR returns False, the
\* segmentation of the session is not replaced, and the widget that called
\* it does not enable the review panel.
C25_FailedPullEnablesNothing ==
    [][(last'.op = "loadPR" /\ last'.result = "false") =>
        LET s == last'.s
        IN /\ sess'[s].segmentationNode = sess[s].segmentationNode
           /\ sess'[s].segmentationPath = sess[s].segmentationPath
           /\ sess'[s].prPanel = sess[s].prPanel]_vars


(***************************************************************************)
(* commitAndPush on two machines of one user, step by step                 *)
(***************************************************************************)
Machines == {"a1", "a2"}

InitSteps ==
    /\ active = Machines
    /\ faults = 0
    /\ repos = InitialRepos(active)
    /\ prs = <<>>
    /\ wc = [s \in Sessions |-> <<>>]
    /\ sess = [s \in Sessions |-> NewLogic]
    /\ assignee = InitialAssignee(active)
    /\ env = ConfiguredEnv
    /\ last = NoLast

StepObs(s, step) == [NoLast EXCEPT !.op = "commitAndPush", !.s = s, !.how = step]

\* a handler of the widget starts when no other handler of it is running
StepLoadIssue(s, issue) ==
    /\ sess[s].pc = "idle"
    /\ LoadIssue(s, issue)

\* saveNode, index.add, index.commit
StepCommit(s) ==
    LET logic == sess[s]
        dir == logic.localRepo
    IN
    /\ s \in active
    /\ logic.pc = "idle"
    /\ logic.forkManagement
    /\ logic.segmentationNode # NoNode
    /\ logic.segmentationPath.dir = dir
    /\ wc[s][dir].head # Detached
    /\ Cardinality(AllChanges) < MaxChanges
    /\ LET branchName == wc[s][dir].head IN
       wc' = [wc EXCEPT ![s][dir].heads[branchName] = @ \cup {NewChange(s, branchName)}]
    /\ sess' = [sess EXCEPT ![s].pc = "rebase"]
    /\ last' = StepObs(s, "commit")
    /\ UNCHANGED <<env, active, faults, repos, prs, assignee>>

\* git pull --rebase origin <branch> when origin/<branch> is among the refs
StepRebase(s) ==
    LET dir == sess[s].localRepo
        w0 == wc[s][dir]
        branchName == w0.head
        onOrigin == branchName \in DOMAIN w0.refs
    IN
    /\ sess[s].pc = "rebase"
    /\ \E conflict \in BOOLEAN :
       \E pull \in {IF onOrigin
                    THEN PullRebase(w0.heads[branchName],
                                    repos[w0.origin].branches[branchName], conflict)
                    ELSE [ok |-> TRUE, commit |-> w0.heads[branchName]]} :
       /\ conflict => ~pull.ok
       /\ wc' = [wc EXCEPT ![s][dir] =
                    IF ~onOrigin THEN w0
                    ELSE IF pull.ok
                    THEN [w0 EXCEPT !.heads[branchName] = pull.commit,
                                    !.refs[branchName] = repos[w0.origin].branches[branchName]]
                    ELSE [w0 EXCEPT !.head = Detached,
                                    !.refs[branchName] = repos[w0.origin].branches[branchName]]]
       /\ sess' = [sess EXCEPT ![s].pc = IF pull.ok THEN "push" ELSE "idle"]
       /\ last' = [StepObs(s, "rebase") EXCEPT !.result = IF pull.ok THEN "ok" ELSE "raised"]
    /\ UNCHANGED <<env, active, faults, repos, prs, assignee>>

\* remote.push(branchName) and the inspection of its flags
StepPush(s) ==
    LET dir == sess[s].localRepo
        w == wc[s][dir]
        branchName == w.head
        mine == w.heads[branchName]
        flag == PushResult(repos[w.origin].branches, branchName, mine, "none")
    IN
    /\ sess[s].pc = "push"
    /\ IF flag \in PushFailureFlags
       THEN /\ UNCHANGED <<repos, wc>>
            /\ sess' = [sess EXCEPT ![s].pc = "idle"]
            /\ last' = [StepObs(s, "push") EXCEPT !.result = "false", !.push = flag]
       ELSE /\ repos' = [repos EXCEPT ![w.origin].branches = (branchName :> mine) @@ @]
            /\ wc' = [wc EXCEPT ![s][dir].refs = (branchName :> mine) @@ @]
            /\ sess' = [sess EXCEPT ![s].pc = "lookup"]
            /\ last' = [StepObs(s, "push") EXCEPT !.push = flag]
    /\ UNCHANGED <<env, active, faults, prs, assignee>>

\* if not self.issuePR()
StepLookup(s) ==
    LET found == issuePR(s, "segmenter") IN
    /\ sess[s].pc = "lookup"
    /\ sess' = [sess EXCEPT ![s].found = found,
                            ![s].pc = IF found # 0 THEN "idle" ELSE "create",
                            ![s].reviewButton = @ \/ found # 0]
    /\ last' = [StepObs(s, "lookup") EXCEPT !.pr = found,
                    !.result = IF found # 0 THEN "true" ELSE "ok"]
    /\ UNCHANGED <<env, active, faults, repos, prs, wc, assignee>>

\* gh pr create --draft
StepCreate(s) ==
    LET w == ActiveCopy(s)
        branchName == w.head
        issueNumber == branchName[2]
        upstreamNameWithOwner == nameWithOwner(s, w, "upstream")
        originNameWithOwner == nameWithOwner(s, w, "origin")
        originOwner == Split(originNameWithOwner, "/")[1]
        prBody == <<"Fixes", issueNumber>>
        base == RepoByNWO(upstreamNameWithOwner)
        accepted == base # None /\ PRCreateAccepted(repos, base, originOwner, branchName)
    IN
    /\ sess[s].pc = "create"
    /\ prs' = IF accepted
              THEN Append(prs, NewDraftPR(base, branchName, originOwner,
                                          branchName, prBody, Me[s]))
              ELSE prs
    /\ sess' = [sess EXCEPT ![s].pc = "idle", ![s].reviewButton = @ \/ accepted]
    /\ last' = [StepObs(s, "create") EXCEPT !.cmds = <<"pr create">>,
                    !.result = IF accepted THEN "true" ELSE "raised"]
    /\ UNCHANGED <<env, active, faults, repos, wc, assignee>>

NextSteps ==
    \/ \E s \in Machines, i \in Issues : StepLoadIssue(s, i)
    \/ \E s \in Machines : StepCommit(s)
    \/ \E s \in Machines : StepRebase(s)
    \/ \E s \in Machines : StepPush(s)
    \/ \E s \in Machines : StepLookup(s)
    \/ \E s \in Machines : StepCreate(s)

SpecSteps == InitSteps /\ [][NextSteps]_vars

InitCycle ==
    /\ active \in {{"a1", "c1"}, {"a2", "c1"}}
    /\ faults = MaxFaults
    /\ repos = InitialRepos(active)
    /\ prs = <<>>
    /\ wc = [s \in Sessions |-> <<>>]
    /\ sess = [s \in Sessions |-> NewLogic]
    /\ assignee = [i \in Issues |-> "ann"]
    /\ env = ConfiguredEnv
    /\ last = NoLast

\* the machine the annotator works on
Annotator == CHOOSE s \in active : Me[s] = "ann"

\* no pull request has been made for the issue
NotStarted(i) == \A k \in 1 .. Len(prs) : prs[k].title # BranchName(i)

\* the annotator can still commit
CanCommit == Cardinality(AllChanges) < MaxChanges

NextCycle ==
    \/ \E i \in Issues :
          /\ last.op \in {"init", "approvePR"}
          /\ NotStarted(i) /\ CanCommit
          /\ LoadIssue(Annotator, i)
    \/ \E i \in Issues :
          /\ last.op = "requestChanges"
          /\ prs[last.pr].title = BranchName(i)
          /\ LoadIssue(Annotator, i)
    \/ last.op = "loadIssue" /\ CommitAndPush(Annotator)
    \/ last.op = "commitAndPush" /\ RequestReview(Annotator)
    \/ last.op = "requestReview" /\ LoadPR("c1", last.pr)
    \/ \E m \in Messages : last.op = "loadPR" /\ ApprovePR("c1", m)
    \/ \E m \in Messages : last.op = "loadPR" /\ CanCommit /\ RequestChanges("c1", m)

SpecCycle == InitCycle /\ [][NextCycle]_vars /\ WF_vars(NextCycle)

PRNumbers == 1 .. Cardinality(Issues)

ChangesRequested(k) ==
    /\ k <= Len(prs)
    /\ prs[k].state = "open" /\ prs[k].isDraft /\ prs[k].review.kind = "changes"

UnderReview(k) ==
    /\ k <= Len(prs)
    /\ prs[k].state = "open" /\ ~prs[k].isDraft

MergedAlone(k) ==
    /\ k <= Len(prs)
    /\ prs[k].state = "merged"
    /\ \A j \in 1 .. Len(prs) : prs[j].title = prs[k].title => j = k

\* C27: a pull request on which changes were requested is, after the
\* annotator's loadIssue, commitAndPush and requestReview and the reviewer's
\* loadPR and approve, eventually merged, being still the only pull request
\* of its branch; and a pull request marked ready for review is eventually
\* merged.
C27_ReviewCycleCompletes ==
    \A k \in PRNumbers :
        /\ ChangesRequested(k) ~> MergedAlone(k)
        /\ UnderReview(k) ~> MergedAlone(k)

\* the pull request was sent back once, reworked and then merged
C27_Witness ==
    /\ last.op = "approvePR" /\ last.result = "ok"
    /\ MergedAlone(last.pr)
    /\ Len(prs) = 1
    /\ Cardinality(repos[Upstream].branches[Main] \ RootCommit) = 2


\* C28: whenever commitAndPush would pass its check of the segmentation
\* node, the segmentation path is <directory of the active working copy>/
\* <active branch>.seg.nrrd and the node is the one loaded for that branch.
C28_ArtifactOfActiveBranch ==
    \A s \in active :
        sess[s].segmentationNode # NoNode =>
            /\ sess[s].localRepo # NoDir
            /\ sess[s].segmentationPath = LoadedPath(sess[s].localRepo, ActiveCopy(s))
            /\ sess[s].segmentationNode = LoadedNode(sess[s].localRepo, ActiveCopy(s))


\* C29: after a successful loadIssue the owner/name read from the "upstream"
\* remote of the active working copy is the repository of the issue.
C29_UpstreamIsIssueRepository ==
    (last.op = "loadIssue" /\ last.result = "ok") =>
        /\ HasRemote(ActiveCopy(last.s), "upstream")
        /\ nameWithOwner(last.s, ActiveCopy(last.s), "upstream") = NWO(Upstream)


====
